---------------------------- MODULE Spec2Model ----------------------------
(***************************************************************************)
(* A model of the homebridge-airmx platform plugin (src/src/index.ts):     *)
(* the AirmxPlatform accessory lifecycle (configureAccessory,              *)
(* didFinishLaunching -> registerDevices -> cleanUpObsolete), the          *)
(* onEagleUpdate telemetry listener, and the AirmxProAccessory             *)
(* characteristic handlers.                                                *)
(*                                                                         *)
(* JavaScript runs every callback to completion on one event loop, so each *)
(* callback is one action.  The didFinishLaunching callback is shown step  *)
(* by step (pc, i): the iterations of registerDevices' loop, the           *)
(* statements of registerAccessory, cleanUpObsolete; no other callback is  *)
(* enabled while it is in progress.                                        *)
(*                                                                         *)
(* An object with an optional property is a record whose DOMAIN may lack   *)
(* the property: a context without "status" is `context.status ===         *)
(* undefined`, and a status update lacking a field reads as undefined      *)
(* there.                                                                  *)
(***************************************************************************)
EXTENDS Integers, Sequences, FiniteSets, TLC

VARIABLES
    config,          \* this.config.devices: the configured Device list
    cache,           \* the host's persisted accessories not yet handed over
    loaded,          \* UUIDs of the accessories handed to configureAccessory
    accessories,     \* this.accessories: Map<UUID, PlatformAccessory context>
    discoveredUuids, \* this.discoveredUuids
    handlers,        \* UUIDs whose accessory has an AirmxProAccessory bound
    registered,      \* calls of api.registerPlatformAccessories, in order
    unregistered,    \* accessories passed to api.unregisterPlatformAccessories
    pc,              \* position of the platform in its lifecycle
    i,               \* index of the next device in registerDevices' loop
    sent,            \* calls on the airmx client made by the last callback
    event            \* the last callback run, its arguments and its result

vars == <<config, cache, loaded, accessories, discoveredUuids, handlers,
          registered,
          unregistered, pc, i, sent, event>>

----------------------------------------------------------------------------
(* Bounds of the model. *)

MaxDeviceId == 2

MaxConfigLen == 2

DeviceIds == 1..MaxDeviceId

----------------------------------------------------------------------------
(* Program constants. *)

EagleMode_Manual == 0

EagleMode_Ai == 1

threshold == 80

stubControl ==
    [power |-> 0, heatStatus |-> 0, mode |-> 0, cadr |-> 47, denoise |-> 0]

\* The HAP characteristic values the handlers name; opaque to the plugin.
ACTIVE == "Active.ACTIVE"

INACTIVE == "Active.INACTIVE"

PURIFYING_AIR == "CurrentAirPurifierState.PURIFYING_AIR"

STATE_INACTIVE == "CurrentAirPurifierState.INACTIVE"

AUTO == "TargetAirPurifierState.AUTO"

MANUAL == "TargetAirPurifierState.MANUAL"

CHANGE_FILTER == "FilterChangeIndication.CHANGE_FILTER"

FILTER_OK == "FilterChangeIndication.FILTER_OK"

\* What JavaScript arithmetic yields on an undefined operand.
NaN == "NaN"

----------------------------------------------------------------------------
(* Data. *)

\* api.hap.uuid.generate(id.toString()): a deterministic digest of the
\* decimal text of the id, distinct for distinct ids.
Uuid(id) == "uuid-" \o ToString(id)

Uuids == {Uuid(d) : d \in DeviceIds}

\* interface Device; the key is used by the protocol client only.
Device(d) == [id |-> d, key |-> "key-" \o ToString(d)]

\* The properties of AccessoryContext.status.
StatusFields ==
    {"power", "mode", "cadr", "g4Percent", "carbonPercent", "hepaPercent",
     "version"}

HasStatus(context) == "status" \in DOMAIN context

Has(obj, f) == f \in DOMAIN obj

\* f restricted to the keys in S that it has.
Restrict(f, S) == [k \in (DOMAIN f) \cap S |-> f[k]]

\* Map.prototype.set
MapSet(map, key, value) == (key :> value) @@ map


\* Whether Math.max of the three filter percentages is a number: it is NaN
\* when one of them is undefined.
IsNumber(status) ==
    {"g4Percent", "carbonPercent", "hepaPercent"} \subseteq DOMAIN status

\* MathMax leaving out hepaPercent.
MathMaxOfTwo(status) ==
    IF IsNumber(status)
    THEN IF status.g4Percent >= status.carbonPercent
         THEN status.g4Percent
         ELSE status.carbonPercent
    ELSE NaN

\* Math.max(status.g4Percent, status.carbonPercent, status.hepaPercent)
MathMax(status) ==
    IF IsNumber(status)
    THEN LET a == status.g4Percent
             b == status.carbonPercent
             c == status.hepaPercent
         IN  IF a >= b /\ a >= c THEN a ELSE IF b >= c THEN b ELSE c
    ELSE NaN

----------------------------------------------------------------------------
(* The calls the handlers make on the airmx client. *)

\* this.platform.airmx.control(id, data)
Control(id, data) == [method |-> "control", deviceId |-> id, args |-> <<data>>]

\* this.platform.airmx.device(id).on() / .off() / .ai() / .cadr(n)
DeviceCall(id, method, args) ==
    [method |-> method, deviceId |-> id, args |-> args]

\* sendRawControl spreading in the other order: { ...data, ...stubControl }.
sendRawControlStubLast(context, data) ==
    <<Control(context.device.id, stubControl @@ data)>>

\* sendRawControl: { ...stubControl, ...data }, sent for context.device.id.
sendRawControl(context, data) ==
    <<Control(context.device.id, data @@ stubControl)>>

----------------------------------------------------------------------------
(* AirmxProAccessory's characteristic handlers, as functions of the        *)
(* accessory's context: a get handler yields the value returned, a set     *)
(* handler the calls made on the airmx client.                             *)

\* handleFirmwareRevisionGet with ?? in place of ||: an empty version is
\* returned as it is.
handleFirmwareRevisionGetNullish(context) ==
    IF HasStatus(context) /\ Has(context.status, "version")
    THEN context.status.version
    ELSE "N/A"

\* status?.version || 'N/A'
handleFirmwareRevisionGet(context) ==
    IF /\ HasStatus(context)
       /\ Has(context.status, "version")
       /\ context.status.version # ""
    THEN context.status.version
    ELSE "N/A"

handleActiveGet(context) ==
    IF /\ HasStatus(context)
       /\ Has(context.status, "power")
       /\ context.status.power = 1
    THEN ACTIVE
    ELSE INACTIVE

\* handleActiveSet without its status-unknown branch.
handleActiveSetNoFallback(context, value) ==
    IF value = ACTIVE
    THEN <<DeviceCall(context.device.id, "on", <<>>)>>
    ELSE <<DeviceCall(context.device.id, "off", <<>>)>>

handleActiveSet(context, value) ==
    LET isOn == value = ACTIVE
    IN  IF ~HasStatus(context)
        THEN sendRawControl(context, [power |-> IF isOn THEN 1 ELSE 0])
        ELSE IF isOn
             THEN <<DeviceCall(context.device.id, "on", <<>>)>>
             ELSE <<DeviceCall(context.device.id, "off", <<>>)>>

handleCurrentAirPurifierStateGet(context) ==
    IF /\ HasStatus(context)
       /\ Has(context.status, "power")
       /\ context.status.power = 1
    THEN PURIFYING_AIR
    ELSE STATE_INACTIVE

handleTargetAirPurifierStateGet(context) ==
    IF /\ HasStatus(context)
       /\ Has(context.status, "mode")
       /\ context.status.mode = EagleMode_Ai
    THEN AUTO
    ELSE MANUAL

\* handleTargetAirPurifierStateSet going back to the stub's cadr for manual.
handleTargetAirPurifierStateSetStubCadr(context, value) ==
    LET isAuto == value = AUTO
    IN  IF ~HasStatus(context)
        THEN sendRawControl(context,
                 [power |-> 1,
                  mode |-> IF isAuto THEN EagleMode_Ai ELSE EagleMode_Manual])
        ELSE IF isAuto
             THEN <<DeviceCall(context.device.id, "ai", <<>>)>>
             ELSE <<DeviceCall(context.device.id, "cadr",
                        <<stubControl.cadr>>)>>

\* device.cadr(status.cadr) is called with no argument value when the
\* status has no cadr.
handleTargetAirPurifierStateSet(context, value) ==
    LET isAuto == value = AUTO
    IN  IF ~HasStatus(context)
        THEN sendRawControl(context,
                 [power |-> 1,
                  mode |-> IF isAuto THEN EagleMode_Ai ELSE EagleMode_Manual])
        ELSE IF isAuto
             THEN <<DeviceCall(context.device.id, "ai", <<>>)>>
             ELSE <<DeviceCall(context.device.id, "cadr",
                        IF Has(context.status, "cadr")
                        THEN <<context.status.cadr>>
                        ELSE <<>>)>>

\* status?.cadr || 0
handleRotationSpeedGet(context) ==
    IF /\ HasStatus(context)
       /\ Has(context.status, "cadr")
       /\ context.status.cadr # 0
    THEN context.status.cadr
    ELSE 0

\* handleRotationSpeedSet leaving power to the stub when the status is unknown.
handleRotationSpeedSetNoPower(context, value) ==
    IF ~HasStatus(context)
    THEN sendRawControl(context, [mode |-> EagleMode_Manual, cadr |-> value])
    ELSE <<DeviceCall(context.device.id, "cadr", <<value>>)>>

handleRotationSpeedSet(context, value) ==
    IF ~HasStatus(context)
    THEN sendRawControl(context,
             [power |-> 1, mode |-> EagleMode_Manual, cadr |-> value])
    ELSE <<DeviceCall(context.device.id, "cadr", <<value>>)>>

\* handleFilterChangeIndicationGet asking for a change at the threshold.
handleFilterChangeIndicationGetAtThreshold(context) ==
    IF ~HasStatus(context)
    THEN FILTER_OK
    ELSE IF IsNumber(context.status) /\ MathMax(context.status) >= threshold
         THEN CHANGE_FILTER
         ELSE FILTER_OK

\* NaN > threshold is false.
handleFilterChangeIndicationGet(context) ==
    IF ~HasStatus(context)
    THEN FILTER_OK
    ELSE LET maxPercent == MathMax(context.status)
         IN  IF IsNumber(context.status) /\ maxPercent > threshold
             THEN CHANGE_FILTER
             ELSE FILTER_OK

\* handleFilterLifeLevelGet reporting an exhausted filter without a status.
handleFilterLifeLevelGetEmpty(context) ==
    IF ~HasStatus(context)
    THEN 0
    ELSE IF IsNumber(context.status)
         THEN 100 - MathMax(context.status)
         ELSE NaN

\* 100 - NaN is NaN.
handleFilterLifeLevelGet(context) ==
    IF ~HasStatus(context)
    THEN 100
    ELSE LET maxPercent == MathMax(context.status)
         IN  IF IsNumber(context.status) THEN 100 - maxPercent ELSE NaN

----------------------------------------------------------------------------
(* The inputs the model draws from. *)

\* Sequences over S of length at most n.
SeqsUpTo(S, n) == UNION {[1..k -> S] : k \in 0..n}

\* Status updates of the protocol client: the full records over the given
\* values, and each of them with the properties in one set of Omit left out.
StatusUpdates(ids, powers, modes, cadrs, percents, versions, Omit) ==
    {Restrict(full, DOMAIN full \ omit) :
        full \in [deviceId : ids, power : powers, mode : modes, cadr : cadrs,
                  g4Percent : percents, carbonPercent : percents,
                  hepaPercent : percents, version : versions],
        omit \in Omit}

\* The updates of the lifecycle specification: few values, every device;
\* an update may lack its cadr.
Updates ==
    StatusUpdates(DeviceIds, {0, 1}, {EagleMode_Ai}, {30}, {90}, {"1.0.0"},
                  {{}, {"cadr"}})

\* The updates of the handler specification: many values, and every
\* property may be missing.
SyncUpdates(id) ==
    StatusUpdates({id}, {0, 1}, {EagleMode_Manual, EagleMode_Ai}, {0, 30},
                  {0, 80, 81, 100}, {"", "1.0.0"},
                  {{}} \cup {{f} : f \in StatusFields})

\* The values the host writes to Active and to TargetAirPurifierState.
ActiveValues == {ACTIVE, INACTIVE}

TargetValues == {AUTO, MANUAL}

\* The values the host writes to RotationSpeed (a percentage).
Speeds == {30}

SyncSpeeds == {0, 1, 30, 47, 100}

\* A context the host persisted in an earlier run: the device, and the
\* status if an update had been stored in the context before it was saved.
CachedContexts(d) ==
    {[device |-> Device(d)]}
    \cup {[device |-> Device(d), status |-> Restrict(st, StatusFields)] :
            st \in {u \in Updates :
                      u.deviceId = d /\ u.power = 1 /\ Has(u, "cadr")}}

\* The host's accessory caches: the accessories this plugin registered in
\* earlier runs, each under the UUID of its device.
Caches ==
    UNION {{c \in [{Uuid(d) : d \in D} -> UNION {CachedContexts(d) : d \in D}] :
                \A u \in DOMAIN c : Uuid(c[u].device.id) = u} :
           D \in SUBSET DeviceIds}

----------------------------------------------------------------------------
(* AirmxPlatform. *)

\* SetStatus merging the update into the status stored before.
SetStatusMerged(context, status) ==
    IF HasStatus(context)
    THEN ("status" :> (Restrict(status, StatusFields) @@ context.status))
         @@ context
    ELSE ("status" :> Restrict(status, StatusFields)) @@ context

\* The context after `accessory.context.status = { power: status.power, ... }`.
SetStatus(context, status) ==
    ("status" :> Restrict(status, StatusFields)) @@ context

\* Route storing the update in the context of every accessory.
RouteBroadcast(map, status) ==
    [uuid \in DOMAIN map |-> SetStatus(map[uuid], status)]

\* Route creating an entry for a device that has none.
RouteCreating(map, status) ==
    LET uuid == Uuid(status.deviceId)
    IN  MapSet(map, uuid,
            IF uuid \in DOMAIN map
            THEN ("status" :> Restrict(status, StatusFields)) @@ map[uuid]
            ELSE [device |-> [id |-> status.deviceId],
                  status |-> Restrict(status, StatusFields)])

\* The onEagleUpdate listener's effect on this.accessories.
Route(map, status) ==
    LET uuid == Uuid(status.deviceId)
    IN  IF uuid \in DOMAIN map
        THEN [map EXCEPT ![uuid] = SetStatus(@, status)]
        ELSE map

OnEagleUpdate(status) ==
    /\ pc \in {"constructed", "launched"}
    /\ accessories' = Route(accessories, status)
    /\ sent' = <<>>
    /\ event' = [op |-> "onEagleUpdate", status |-> status]
    /\ UNCHANGED <<config, cache, loaded,
                   discoveredUuids, handlers, registered,
                   unregistered, pc, i>>

\* The host hands over one accessory of its cache, before launch completes.
ConfigureAccessory(uuid) ==
    /\ pc = "constructed"
    /\ uuid \in DOMAIN cache
    /\ accessories' = MapSet(accessories, uuid, cache[uuid])
    /\ cache' = [u \in DOMAIN cache \ {uuid} |-> cache[u]]
    /\ loaded' = loaded \cup {uuid}
    /\ sent' = <<>>
    /\ event' = [op |-> "configureAccessory", UUID |-> uuid]
    /\ UNCHANGED <<config, discoveredUuids, handlers, registered,
                   unregistered, pc, i>>

\* The host emits didFinishLaunching once, after it has handed over its
\* cache; the callback starts with registerDevices.
DidFinishLaunching ==
    /\ pc = "constructed"
    /\ DOMAIN cache = {}
    /\ pc' = "registerDevices"
    /\ i' = 1
    /\ sent' = <<>>
    /\ event' = [op |-> "didFinishLaunching"]
    /\ UNCHANGED <<config, cache, loaded,
                   accessories, discoveredUuids, handlers,
                   registered, unregistered>>

\* new AirmxProAccessory(this, accessory): binds the handlers of the
\* accessory's characteristics.
NewAirmxProAccessory(uuid) == handlers' = handlers \cup {uuid}

\* restoreAccessory starting the restored accessory without a status.
restoreAccessoryFresh(uuid) ==
    /\ NewAirmxProAccessory(uuid)
    /\ accessories' =
         [accessories EXCEPT ![uuid] = [device |-> accessories[uuid].device]]
    /\ UNCHANGED registered

restoreAccessory(uuid) ==
    /\ NewAirmxProAccessory(uuid)
    /\ UNCHANGED <<accessories, registered>>

\* RegisterDevices without the lookup of this.accessories: every configured
\* device goes to registerAccessory.
RegisterDevicesNoLookup ==
    /\ pc = "registerDevices"
    /\ i <= Len(config)
    /\ LET device == config[i]
           uuid == Uuid(device.id)
       IN  /\ accessories' = MapSet(accessories, uuid, [device |-> device])
           /\ event' = [op |-> "registerDevices", UUID |-> uuid]
    /\ pc' = "registerAccessory"
    /\ sent' = <<>>
    /\ UNCHANGED <<config, cache, loaded, discoveredUuids, handlers,
                   registered, unregistered, i>>

\* One iteration of registerDevices' loop, up to the end of the iteration for
\* a device that has an entry, and up to registerAccessory's
\* this.accessories.set for a device that has none.
RegisterDevices ==
    /\ pc = "registerDevices"
    /\ i <= Len(config)
    /\ LET device == config[i]
           uuid == Uuid(device.id)
       IN  /\ \/ /\ uuid \in DOMAIN accessories
                 /\ restoreAccessory(uuid)
                 /\ discoveredUuids' = Append(discoveredUuids, uuid)
                 /\ i' = i + 1
                 /\ pc' = "registerDevices"
              \/ /\ uuid \notin DOMAIN accessories
                 /\ accessories' =
                      MapSet(accessories, uuid, [device |-> device])
                 /\ pc' = "registerAccessory"
                 /\ UNCHANGED <<handlers, registered, discoveredUuids, i>>
           /\ event' = [op |-> "registerDevices", UUID |-> uuid]
    /\ sent' = <<>>
    /\ UNCHANGED <<config, cache, loaded, unregistered>>

\* RegisterAccessoryBind leaving out new AirmxProAccessory.
RegisterAccessoryBindSkipped ==
    /\ pc = "registerAccessory"
    /\ pc' = "registerPlatformAccessories"
    /\ sent' = <<>>
    /\ event' = [op |-> "registerAccessory", UUID |-> Uuid(config[i].id)]
    /\ UNCHANGED <<config, cache, loaded,
                   accessories, discoveredUuids, handlers, registered,
                   unregistered, i>>

\* registerAccessory after this.accessories.set: new AirmxProAccessory.
RegisterAccessoryBind ==
    /\ pc = "registerAccessory"
    /\ NewAirmxProAccessory(Uuid(config[i].id))
    /\ pc' = "registerPlatformAccessories"
    /\ sent' = <<>>
    /\ event' = [op |-> "registerAccessory", UUID |-> Uuid(config[i].id)]
    /\ UNCHANGED <<config, cache, loaded,
                   accessories, discoveredUuids, registered,
                   unregistered, i>>

\* registerAccessory's api.registerPlatformAccessories, and the end of the
\* loop iteration: discoveredUuids.push.
RegisterAccessoryPublish ==
    /\ pc = "registerPlatformAccessories"
    /\ registered' = Append(registered, Uuid(config[i].id))
    /\ discoveredUuids' = Append(discoveredUuids, Uuid(config[i].id))
    /\ i' = i + 1
    /\ pc' = "registerDevices"
    /\ sent' = <<>>
    /\ event' = [op |-> "registerPlatformAccessories",
                 UUID |-> Uuid(config[i].id)]
    /\ UNCHANGED <<config, cache, loaded, accessories, handlers, unregistered>>

\* Obsolete with the test of discoveredUuids.includes(uuid) not negated.
ObsoleteInverted(map, discovered) ==
    {uuid \in DOMAIN map : \E k \in 1..Len(discovered) : discovered[k] = uuid}

\* The accessories cleanUpObsolete passes to unregisterPlatformAccessories.
Obsolete(map, discovered) ==
    {uuid \in DOMAIN map : \A k \in 1..Len(discovered) : discovered[k] # uuid}

\* CleanUpObsolete without waiting for the end of registerDevices' loop.
CleanUpObsoleteEarly ==
    /\ pc = "registerDevices"
    /\ unregistered' = unregistered \cup Obsolete(accessories, discoveredUuids)
    /\ pc' = "launched"
    /\ sent' = <<>>
    /\ event' = [op |-> "cleanUpObsolete"]
    /\ UNCHANGED <<config, cache, loaded,
                   accessories, discoveredUuids, handlers,
                   registered, i>>

\* cleanUpObsolete, run when registerDevices' loop has ended.
CleanUpObsolete ==
    /\ pc = "registerDevices"
    /\ i > Len(config)
    /\ unregistered' = unregistered \cup Obsolete(accessories, discoveredUuids)
    /\ pc' = "launched"
    /\ sent' = <<>>
    /\ event' = [op |-> "cleanUpObsolete"]
    /\ UNCHANGED <<config, cache, loaded,
                   accessories, discoveredUuids, handlers,
                   registered, i>>

----------------------------------------------------------------------------
(* The host's requests on the characteristics of a bound accessory. *)

Get(uuid, op, ret) ==
    /\ pc = "launched"
    /\ uuid \in handlers
    /\ sent' = <<>>
    /\ event' = [op |-> op, UUID |-> uuid, ret |-> ret]
    /\ UNCHANGED <<config, cache, loaded,
                   accessories, discoveredUuids, handlers,
                   registered, unregistered, pc, i>>

Set(uuid, op, value, calls) ==
    /\ pc = "launched"
    /\ uuid \in handlers
    /\ sent' = calls
    /\ event' = [op |-> op, UUID |-> uuid, value |-> value]
    /\ UNCHANGED <<config, cache, loaded,
                   accessories, discoveredUuids, handlers,
                   registered, unregistered, pc, i>>

\* A write of the host for an accessory no AirmxProAccessory was constructed
\* for: the onSet handlers are bound by that constructor only, so no handler
\* runs and no call is made on the airmx client.
SetWithoutHandler(uuid) ==
    /\ pc = "launched"
    /\ uuid \in DOMAIN accessories \ handlers
    /\ sent' = <<>>
    /\ event' = [op |-> "setWithoutHandler", UUID |-> uuid]
    /\ UNCHANGED <<config, cache, loaded,
                   accessories, discoveredUuids, handlers,
                   registered, unregistered, pc, i>>

FirmwareRevisionGet(uuid) ==
    Get(uuid, "handleFirmwareRevisionGet",
        handleFirmwareRevisionGet(accessories[uuid]))

ActiveGet(uuid) ==
    Get(uuid, "handleActiveGet", handleActiveGet(accessories[uuid]))

\* handleActiveSet storing the written power in the status as well.
ActiveSetOptimistic(uuid, value) ==
    /\ pc = "launched"
    /\ uuid \in handlers
    /\ sent' = handleActiveSet(accessories[uuid], value)
    /\ event' = [op |-> "handleActiveSet", UUID |-> uuid, value |-> value]
    /\ accessories' =
         [accessories EXCEPT ![uuid] =
            ("status" :>
                (("power" :> IF value = ACTIVE THEN 1 ELSE 0)
                 @@ (IF HasStatus(@) THEN @.status ELSE <<>>))) @@ @]
    /\ UNCHANGED <<config, cache, loaded,
                   discoveredUuids, handlers, registered,
                   unregistered, pc, i>>

ActiveSet(uuid, value) ==
    Set(uuid, "handleActiveSet", value,
        handleActiveSet(accessories[uuid], value))

CurrentAirPurifierStateGet(uuid) ==
    Get(uuid, "handleCurrentAirPurifierStateGet",
        handleCurrentAirPurifierStateGet(accessories[uuid]))

TargetAirPurifierStateGet(uuid) ==
    Get(uuid, "handleTargetAirPurifierStateGet",
        handleTargetAirPurifierStateGet(accessories[uuid]))

TargetAirPurifierStateSet(uuid, value) ==
    Set(uuid, "handleTargetAirPurifierStateSet", value,
        handleTargetAirPurifierStateSet(accessories[uuid], value))

RotationSpeedGet(uuid) ==
    Get(uuid, "handleRotationSpeedGet",
        handleRotationSpeedGet(accessories[uuid]))

RotationSpeedSet(uuid, value) ==
    Set(uuid, "handleRotationSpeedSet", value,
        handleRotationSpeedSet(accessories[uuid], value))

FilterChangeIndicationGet(uuid) ==
    Get(uuid, "handleFilterChangeIndicationGet",
        handleFilterChangeIndicationGet(accessories[uuid]))

FilterLifeLevelGet(uuid) ==
    Get(uuid, "handleFilterLifeLevelGet",
        handleFilterLifeLevelGet(accessories[uuid]))

----------------------------------------------------------------------------
(* The lifecycle specification: the platform from its construction on,     *)
(* with any configuration and any host cache.                              *)

Init ==
    /\ config \in SeqsUpTo({Device(d) : d \in DeviceIds}, MaxConfigLen)
    /\ cache \in Caches
    /\ loaded = {}
    /\ accessories = <<>>
    /\ discoveredUuids = <<>>
    /\ handlers = {}
    /\ registered = <<>>
    /\ unregistered = {}
    /\ pc = "constructed"
    /\ i = 0
    /\ sent = <<>>
    /\ event = [op |-> "constructor"]

Next ==
    \/ \E uuid \in DOMAIN cache : ConfigureAccessory(uuid)
    \/ DidFinishLaunching
    \/ RegisterDevices
    \/ RegisterAccessoryBind
    \/ RegisterAccessoryPublish
    \/ CleanUpObsolete
    \/ \E status \in Updates : OnEagleUpdate(status)
    \/ \E uuid \in handlers : FirmwareRevisionGet(uuid)
    \/ \E uuid \in handlers : ActiveGet(uuid)
    \/ \E uuid \in handlers : CurrentAirPurifierStateGet(uuid)
    \/ \E uuid \in handlers : TargetAirPurifierStateGet(uuid)
    \/ \E uuid \in handlers : RotationSpeedGet(uuid)
    \/ \E uuid \in handlers : FilterChangeIndicationGet(uuid)
    \/ \E uuid \in handlers : FilterLifeLevelGet(uuid)
    \/ \E uuid \in handlers, value \in ActiveValues : ActiveSet(uuid, value)
    \/ \E uuid \in handlers, value \in TargetValues :
        TargetAirPurifierStateSet(uuid, value)
    \/ \E uuid \in handlers, value \in Speeds : RotationSpeedSet(uuid, value)
    \/ \E uuid \in DOMAIN accessories : SetWithoutHandler(uuid)

Spec == Init /\ [][Next]_vars

----------------------------------------------------------------------------
(* The handler specification: one device, configured and registered by a   *)
(* launch with an empty cache, which has reported no status or any one     *)
(* status, under every request of the host.                                *)

InitSync ==
    \E d \in DeviceIds :
        /\ config = <<Device(d)>>
        /\ cache = <<>>
        /\ loaded = {}
        /\ accessories \in
             {Uuid(d) :> [device |-> Device(d)]}
             \cup {Route(Uuid(d) :> [device |-> Device(d)], status) :
                     status \in SyncUpdates(d)}
        /\ discoveredUuids = <<Uuid(d)>>
        /\ handlers = {Uuid(d)}
        /\ registered = <<Uuid(d)>>
        /\ unregistered = {}
        /\ pc = "launched"
        /\ i = 2
        /\ sent = <<>>
        /\ event = [op |-> "cleanUpObsolete"]

NextSync ==
    \/ \E uuid \in handlers : FirmwareRevisionGet(uuid)
    \/ \E uuid \in handlers : ActiveGet(uuid)
    \/ \E uuid \in handlers : CurrentAirPurifierStateGet(uuid)
    \/ \E uuid \in handlers : TargetAirPurifierStateGet(uuid)
    \/ \E uuid \in handlers : RotationSpeedGet(uuid)
    \/ \E uuid \in handlers : FilterChangeIndicationGet(uuid)
    \/ \E uuid \in handlers : FilterLifeLevelGet(uuid)
    \/ \E uuid \in handlers, value \in ActiveValues : ActiveSet(uuid, value)
    \/ \E uuid \in handlers, value \in TargetValues :
        TargetAirPurifierStateSet(uuid, value)
    \/ \E uuid \in handlers, value \in SyncSpeeds : RotationSpeedSet(uuid, value)

SpecSync == InitSync /\ [][NextSync]_vars

----------------------------------------------------------------------------
(* Vocabulary of the properties. *)

WriteOps ==
    {"handleActiveSet", "handleTargetAirPurifierStateSet",
     "handleRotationSpeedSet"}

ReadOps ==
    {"handleFirmwareRevisionGet", "handleActiveGet",
     "handleCurrentAirPurifierStateGet", "handleTargetAirPurifierStateGet",
     "handleRotationSpeedGet", "handleFilterChangeIndicationGet",
     "handleFilterLifeLevelGet"}

Range(seq) == {seq[k] : k \in 1..Len(seq)}

\* The UUIDs derived from the devices of the configuration.
ConfiguredUuids == {Uuid(config[k].id) : k \in 1..Len(config)}

\* The device id whose UUID is uuid.
IdOf(uuid) == CHOOSE d \in DeviceIds : Uuid(d) = uuid

----------------------------------------------------------------------------
(* Properties. *)

\* C1: every capability write (Active, TargetAirPurifierState,
\* RotationSpeed) makes exactly one call on the protocol client, and that
\* call is the composed control command if and only if the accessory has no
\* status at the moment of the write (the state the write starts in);
\* otherwise it is one of the direct commands on, off, ai, cadr.
C1_WriteBranchesOnSnapshotAtWrite ==
    [][event'.op \in WriteOps =>
        LET absent == ~HasStatus(accessories[event'.UUID])
        IN  /\ Len(sent') = 1
            /\ sent'[1].method = "control" <=> absent
            /\ ~absent => sent'[1].method \in {"on", "off", "ai", "cadr"}]_vars

\* An accessory registered in this run, which started without a status, has
\* taken a write on the direct path: its status became known in between.
C1_Witness ==
    /\ event.op \in WriteOps
    /\ event.UUID \in Range(registered)
    /\ sent # <<>>
    /\ sent[1].method # "control"

\* C2: a capability write changes no status of any accessory (and nothing
\* else of this.accessories).
C2_WriteLeavesSnapshots ==
    [][event'.op \in WriteOps => accessories' = accessories]_vars

\* Active has been written to inactive while the status says power = 1, and
\* the status still says so.
C2_Witness ==
    /\ event.op = "handleActiveSet"
    /\ event.value = INACTIVE
    /\ HasStatus(accessories[event.UUID])
    /\ accessories[event.UUID].status.power = 1

\* C3: right after a status update for a device that has an entry in
\* this.accessories, the entry's status has exactly the properties of that
\* update among power, mode, cadr, g4Percent, carbonPercent, hepaPercent,
\* version, with the update's values; a property the update lacks is not
\* kept from an earlier status.
C3_SnapshotIsLatestUpdate ==
    (/\ event.op = "onEagleUpdate"
     /\ Uuid(event.status.deviceId) \in DOMAIN accessories)
    => LET context == accessories[Uuid(event.status.deviceId)]
       IN  /\ HasStatus(context)
           /\ DOMAIN context.status = DOMAIN event.status \ {"deviceId"}
           /\ \A f \in DOMAIN context.status :
                context.status[f] = event.status[f]

\* An update without cadr has been routed to an accessory the host restored
\* with a stored status (which had a cadr).
C3_Witness ==
    /\ event.op = "onEagleUpdate"
    /\ ~Has(event.status, "cadr")
    /\ Uuid(event.status.deviceId) \in DOMAIN accessories
    /\ Uuid(event.status.deviceId) \notin Range(registered)
    /\ pc = "constructed"

\* C4: when the launch pass is over, the accessories unregistered from the
\* host are exactly the accessories restored from the host's cache (in
\* this.accessories, not registered in this pass) whose UUID is the UUID of
\* no configured device; no accessory registered in this pass is among them.
C4_PruneExactlyObsoleteCached ==
    pc = "launched" =>
        /\ unregistered =
             {uuid \in DOMAIN accessories \ Range(registered) :
                uuid \notin ConfiguredUuids}
        /\ unregistered \cap Range(registered) = {}

\* Cached accessories of devices 1 and 2, configuration [1]: the accessory of
\* device 2 is unregistered and that of device 1 is not.
C4_Witness ==
    /\ pc = "launched"
    /\ config = <<Device(1)>>
    /\ DOMAIN accessories = {Uuid(1), Uuid(2)}
    /\ registered = <<>>
    /\ unregistered = {Uuid(2)}

\* C5: a status update for a device without an entry in this.accessories
\* leaves this.accessories as it is (no entry is created, no status is
\* changed) and makes no call on the protocol client, before and after the
\* launch pass.
C5_UnknownDeviceDropped ==
    [][(/\ event'.op = "onEagleUpdate"
        /\ Uuid(event'.status.deviceId) \notin DOMAIN accessories)
       => /\ accessories' = accessories
          /\ sent' = <<>>]_vars

\* After the launch pass, with other accessories present, an update has
\* arrived for a device that has no entry.
C5_Witness ==
    /\ event.op = "onEagleUpdate"
    /\ Uuid(event.status.deviceId) \notin DOMAIN accessories
    /\ pc = "launched"
    /\ \E uuid \in DOMAIN accessories : HasStatus(accessories[uuid])

\* C6: a write of Active to an accessory without a status makes the one call
\* control(id, {power, heatStatus: 0, mode: Manual, cadr: 47, denoise: 0})
\* for the accessory's device id, with power 1 for active and 0 for inactive;
\* with a status it makes the one call on() for active, off() for inactive,
\* on that device.
C6_ActiveWrite ==
    event.op = "handleActiveSet" =>
        LET context == accessories[event.UUID]
            isOn == event.value = ACTIVE
        IN  /\ context.device.id = IdOf(event.UUID)
            /\ ~HasStatus(context) =>
                 sent = <<[method |-> "control",
                           deviceId |-> IdOf(event.UUID),
                           args |-> <<[power |-> IF isOn THEN 1 ELSE 0,
                                       heatStatus |-> 0,
                                       mode |-> EagleMode_Manual,
                                       cadr |-> 47,
                                       denoise |-> 0]>>]>>
            /\ HasStatus(context) =>
                 sent = <<[method |-> IF isOn THEN "on" ELSE "off",
                           deviceId |-> IdOf(event.UUID),
                           args |-> <<>>]>>

\* Active has been written to active on an accessory without a status.
C6_Witness ==
    /\ event.op = "handleActiveSet"
    /\ event.value = ACTIVE
    /\ ~HasStatus(accessories[event.UUID])
    /\ sent # <<>>
    /\ sent[1].method = "control"
    /\ sent[1].args[1].power = 1

\* C7: a write of RotationSpeed = N to an accessory without a status makes
\* the one call control(id, {power: 1, heatStatus: 0, mode: Manual, cadr: N,
\* denoise: 0}); with a status it makes the one call cadr(N) on the device,
\* whose only argument is N.
C7_RotationSpeedWrite ==
    event.op = "handleRotationSpeedSet" =>
        LET context == accessories[event.UUID]
        IN  /\ ~HasStatus(context) =>
                 sent = <<[method |-> "control",
                           deviceId |-> IdOf(event.UUID),
                           args |-> <<[power |-> 1,
                                       heatStatus |-> 0,
                                       mode |-> EagleMode_Manual,
                                       cadr |-> event.value,
                                       denoise |-> 0]>>]>>
            /\ HasStatus(context) =>
                 sent = <<[method |-> "cadr",
                           deviceId |-> IdOf(event.UUID),
                           args |-> <<event.value>>]>>

\* RotationSpeed = 30 has been written to an accessory whose status says
\* power = 0 and mode = Ai: the call is cadr(30).
C7_Witness ==
    /\ event.op = "handleRotationSpeedSet"
    /\ event.value = 30
    /\ HasStatus(accessories[event.UUID])
    /\ Has(accessories[event.UUID].status, "power")
    /\ accessories[event.UUID].status.power = 0
    /\ Has(accessories[event.UUID].status, "mode")
    /\ accessories[event.UUID].status.mode = EagleMode_Ai
    /\ sent = <<[method |-> "cadr", deviceId |-> IdOf(event.UUID),
                 args |-> <<30>>]>>

\* C8: a read of an accessory without a status returns the default of its
\* characteristic (Active inactive, CurrentAirPurifierState inactive,
\* TargetAirPurifierState manual, RotationSpeed 0, FilterChangeIndication
\* filter-ok, FilterLifeLevel 100, FirmwareRevision "N/A") and makes no call
\* on the protocol client.
C8_DefaultsWithoutSnapshot ==
    (event.op \in ReadOps /\ ~HasStatus(accessories[event.UUID])) =>
        /\ sent = <<>>
        /\ event.op = "handleActiveGet" => event.ret = INACTIVE
        /\ event.op = "handleCurrentAirPurifierStateGet" =>
             event.ret = STATE_INACTIVE
        /\ event.op = "handleTargetAirPurifierStateGet" => event.ret = MANUAL
        /\ event.op = "handleRotationSpeedGet" => event.ret = 0
        /\ event.op = "handleFilterChangeIndicationGet" =>
             event.ret = FILTER_OK
        /\ event.op = "handleFilterLifeLevelGet" => event.ret = 100
        /\ event.op = "handleFirmwareRevisionGet" => event.ret = "N/A"

\* FilterLifeLevel has been read on an accessory restored from the host's
\* cache that has no status.
C8_Witness ==
    /\ event.op = "handleFilterLifeLevelGet"
    /\ event.UUID \notin Range(registered)
    /\ ~HasStatus(accessories[event.UUID])

\* C9: for a status whose g4Percent, carbonPercent and hepaPercent are in
\* 0..100, the FilterLifeLevel read plus the largest of the three is 100, and
\* the value read is in 0..100.
C9_FilterLifePlusMaxIs100 ==
    (/\ event.op = "handleFilterLifeLevelGet"
     /\ HasStatus(accessories[event.UUID])
     /\ \A f \in {"g4Percent", "carbonPercent", "hepaPercent"} :
            /\ Has(accessories[event.UUID].status, f)
            /\ accessories[event.UUID].status[f] \in 0..100)
    => LET status == accessories[event.UUID].status
           percents == {status.g4Percent, status.carbonPercent,
                        status.hepaPercent}
       IN  /\ \E m \in percents :
                /\ \A p \in percents : p <= m
                /\ event.ret + m = 100
           /\ event.ret \in 0..100

\* FilterLifeLevel has been read with the largest percentage in hepaPercent.
C9_Witness ==
    /\ event.op = "handleFilterLifeLevelGet"
    /\ HasStatus(accessories[event.UUID])
    /\ IsNumber(accessories[event.UUID].status)
    /\ accessories[event.UUID].status.g4Percent = 0
    /\ accessories[event.UUID].status.carbonPercent = 80
    /\ accessories[event.UUID].status.hepaPercent = 81
    /\ event.ret = 19

\* C10: for a status with its three filter percentages, the
\* FilterChangeIndication read is change-filter if the largest of them is
\* above 80 and filter-ok otherwise, so filter-ok when the largest is 80.
C10_FilterChangeAbove80 ==
    (/\ event.op = "handleFilterChangeIndicationGet"
     /\ HasStatus(accessories[event.UUID])
     /\ \A f \in {"g4Percent", "carbonPercent", "hepaPercent"} :
            Has(accessories[event.UUID].status, f))
    => LET status == accessories[event.UUID].status
           above == \/ status.g4Percent > 80
                    \/ status.carbonPercent > 80
                    \/ status.hepaPercent > 80
       IN  /\ above => event.ret = CHANGE_FILTER
           /\ ~above => event.ret = FILTER_OK

\* FilterChangeIndication has been read with the largest percentage at 80.
C10_Witness ==
    /\ event.op = "handleFilterChangeIndicationGet"
    /\ HasStatus(accessories[event.UUID])
    /\ IsNumber(accessories[event.UUID].status)
    /\ accessories[event.UUID].status.g4Percent = 80
    /\ accessories[event.UUID].status.carbonPercent = 0
    /\ accessories[event.UUID].status.hepaPercent = 80
    /\ event.ret = FILTER_OK

\* C11: after cleanUpObsolete has unregistered the accessory of a device, a
\* status update for that device changes the status of no accessory.
C11_UpdateAfterPruneDropped ==
    [][(/\ event'.op = "onEagleUpdate"
        /\ Uuid(event'.status.deviceId) \in unregistered)
       => accessories' = accessories]_vars

\* The positions of the didFinishLaunching callback between its start and the
\* end of cleanUpObsolete.
LaunchSteps ==
    {"registerDevices", "registerAccessory", "registerPlatformAccessories"}

\* C12: an accessory is unregistered only when registerDevices has gone
\* through every configured device (each has been restored or registered and
\* its UUID pushed to discoveredUuids); from the start of the launch callback
\* to the end of cleanUpObsolete no status update is handled; and no
\* accessory of a configured device is unregistered, wherever the device
\* stands in the configuration.
C12_PruneAfterDiscovery ==
    [][/\ unregistered' # unregistered =>
            /\ i > Len(config)
            /\ Len(discoveredUuids) = Len(config)
            /\ \A k \in 1..Len(config) :
                 /\ discoveredUuids[k] = Uuid(config[k].id)
                 /\ discoveredUuids[k] \in handlers
            /\ unregistered' \cap ConfiguredUuids = {}
       /\ pc \in LaunchSteps => event'.op # "onEagleUpdate"]_vars

\* Two configured devices, the second one restored from the cache, and
\* another cached accessory unregistered in the same pass.
C12_Witness ==
    /\ pc = "launched"
    /\ Len(config) = 2
    /\ Uuid(config[2].id) \in loaded
    /\ Uuid(config[2].id) \notin unregistered
    /\ unregistered # {}

\* The number of times uuid occurs in seq.
Count(seq, uuid) == Cardinality({k \in 1..Len(seq) : seq[k] = uuid})

\* C13: when the launch callback ends, registerPlatformAccessories has
\* been called exactly once for the UUID of each configured device that was
\* not handed over by configureAccessory, however often the device occurs in
\* the configuration, and never for another UUID; and the calls of
\* registerPlatformAccessories and unregisterPlatformAccessories are made by
\* steps of the launch callback only, never by a status update, a read or a
\* write (so the calls counted at the end of the callback are all the calls
\* of the run).
C13_RegisterOncePerNewDevice ==
    [][/\ (pc # "launched" /\ pc' = "launched") =>
            \A uuid \in Uuids :
                Count(registered', uuid) =
                    IF uuid \in ConfiguredUuids \ loaded THEN 1 ELSE 0
       /\ (registered' # registered \/ unregistered' # unregistered) =>
            /\ pc \in LaunchSteps
            /\ event'.op \in {"registerPlatformAccessories",
                              "cleanUpObsolete"}]_vars

\* The configuration names device 1 twice, the cache had no accessory for
\* it, and the launch callback has registered it once.
C13_Witness ==
    /\ pc = "launched"
    /\ Len(config) = 2
    /\ config[1].id = config[2].id
    /\ Uuid(config[1].id) \notin loaded
    /\ registered = <<Uuid(config[1].id)>>

\* C14: a write of TargetAirPurifierState to an accessory with a status
\* calls ai() for auto and cadr(status.cadr) for manual, with the cadr of the
\* status as it is when the write runs (no value if that status has no
\* cadr); to an accessory without a status it sends control with power 1,
\* mode Ai for auto and Manual for manual, cadr 47, heatStatus 0, denoise 0.
C14_TargetStateWrite ==
    event.op = "handleTargetAirPurifierStateSet" =>
        LET context == accessories[event.UUID]
            isAuto == event.value = AUTO
        IN  /\ ~HasStatus(context) =>
                 sent = <<[method |-> "control",
                           deviceId |-> IdOf(event.UUID),
                           args |-> <<[power |-> 1,
                                       heatStatus |-> 0,
                                       mode |-> IF isAuto
                                                THEN EagleMode_Ai
                                                ELSE EagleMode_Manual,
                                       cadr |-> 47,
                                       denoise |-> 0]>>]>>
            /\ (HasStatus(context) /\ isAuto) =>
                 sent = <<[method |-> "ai",
                           deviceId |-> IdOf(event.UUID),
                           args |-> <<>>]>>
            /\ (HasStatus(context) /\ ~isAuto) =>
                 /\ Len(sent) = 1
                 /\ sent[1].method = "cadr"
                 /\ sent[1].deviceId = IdOf(event.UUID)
                 /\ Has(context.status, "cadr") =>
                      sent[1].args = <<context.status.cadr>>
                 /\ ~Has(context.status, "cadr") => sent[1].args = <<>>

\* TargetAirPurifierState has been written to manual on an accessory the
\* host restored with a stored status, and cadr(30) was called.
C14_Witness ==
    /\ event.op = "handleTargetAirPurifierStateSet"
    /\ event.value = MANUAL
    /\ event.UUID \in loaded
    /\ HasStatus(accessories[event.UUID])
    /\ sent = <<[method |-> "cadr", deviceId |-> IdOf(event.UUID),
                 args |-> <<30>>]>>

\* The reads of the properties power, mode and cadr of a status, as the claim
\* C15 and its amended form both state them: Active is active iff power is 1,
\* CurrentAirPurifierState is purifying iff power is 1, TargetAirPurifierState
\* is auto iff mode is Ai, RotationSpeed is cadr (0 for cadr 0).
ProjectsPowerModeCadr(status) ==
    LET on == Has(status, "power") /\ status.power = 1
        ai == Has(status, "mode") /\ status.mode = EagleMode_Ai
    IN  /\ event.op = "handleActiveGet" => (event.ret = ACTIVE <=> on)
        /\ event.op = "handleActiveGet" => event.ret \in {ACTIVE, INACTIVE}
        /\ event.op = "handleCurrentAirPurifierStateGet" =>
             /\ event.ret = PURIFYING_AIR <=> on
             /\ event.ret \in {PURIFYING_AIR, STATE_INACTIVE}
        /\ event.op = "handleTargetAirPurifierStateGet" =>
             /\ event.ret = AUTO <=> ai
             /\ event.ret \in {AUTO, MANUAL}
        /\ (event.op = "handleRotationSpeedGet" /\ Has(status, "cadr")) =>
             event.ret = status.cadr

\* C15 as stated: with a status, every read is a projection of it for every
\* value of its properties, FirmwareRevision being the version also when it
\* is empty, and the default "N/A" is not returned while there is a status.
C15_ReadsProjectEveryValue ==
    (event.op \in ReadOps /\ HasStatus(accessories[event.UUID])) =>
        LET status == accessories[event.UUID].status
        IN  /\ ProjectsPowerModeCadr(status)
            /\ event.op = "handleFirmwareRevisionGet" =>
                 /\ Has(status, "version") => event.ret = status.version
                 /\ event.ret # "N/A"

\* C15, amended: with a status, Active, CurrentAirPurifierState,
\* TargetAirPurifierState and RotationSpeed are projections of power, mode
\* and cadr (RotationSpeed 0 for cadr 0 and for a missing cadr), and
\* FirmwareRevision is the version when that is a non-empty string and the
\* default "N/A" when the version is empty or missing.
C15_ReadsProjectTruthyVersion ==
    (event.op \in ReadOps /\ HasStatus(accessories[event.UUID])) =>
        LET status == accessories[event.UUID].status
        IN  /\ ProjectsPowerModeCadr(status)
            /\ (event.op = "handleRotationSpeedGet" /\ ~Has(status, "cadr"))
                 => event.ret = 0
            /\ event.op = "handleFirmwareRevisionGet" =>
                 event.ret = IF Has(status, "version") /\ status.version # ""
                             THEN status.version
                             ELSE "N/A"

\* FirmwareRevision has been read on an accessory whose status has the empty
\* version, and "N/A" was returned.
C15_Witness ==
    /\ event.op = "handleFirmwareRevisionGet"
    /\ HasStatus(accessories[event.UUID])
    /\ Has(accessories[event.UUID].status, "version")
    /\ accessories[event.UUID].status.version = ""
    /\ event.ret = "N/A"

\* C16: an accessory has no status until a status update for its device is
\* handled in this run: an accessory that enters this.accessories, by
\* configureAccessory or by registerDevices, has none, and a status appears
\* on an accessory only in the step of an update for its device.
C16_SnapshotAbsentUntilUpdate ==
    [][\A uuid \in DOMAIN accessories' :
         (/\ HasStatus(accessories'[uuid])
          /\ uuid \in DOMAIN accessories => ~HasStatus(accessories[uuid]))
         => /\ event'.op = "onEagleUpdate"
            /\ Uuid(event'.status.deviceId) = uuid]_vars

\* C17 as stated: at every step, each UUID in this.accessories that
\* registerDevices put there (the host did not hand it over) has its
\* handlers bound.
C17_VisibleOnlyConstructed ==
    \A uuid \in DOMAIN accessories \ loaded : uuid \in handlers

\* C17, amended: whenever a callback of the event loop can run (a status
\* update, a read or a write: the launch callback has not started or has
\* ended), each UUID in this.accessories that registerDevices put there has
\* its handlers bound; in between, inside registerAccessory, the entry is in
\* this.accessories before new AirmxProAccessory has run.
C17_VisibleOnlyConstructedBetweenCallbacks ==
    pc \notin LaunchSteps =>
        \A uuid \in DOMAIN accessories \ loaded : uuid \in handlers

\* A status update has been routed to an accessory registerDevices created,
\* whose handlers are bound.
C17_Witness ==
    /\ event.op = "onEagleUpdate"
    /\ Uuid(event.status.deviceId) \in Range(registered)
    /\ Uuid(event.status.deviceId) \in handlers
    /\ HasStatus(accessories[Uuid(event.status.deviceId)])

\* C18: a write of the host addressed to an accessory cleanUpObsolete has
\* unregistered makes no call on the airmx client: no handler is bound to
\* such an accessory, so the write runs no handler, and no write handler that
\* runs belongs to an unregistered accessory.
C18_WriteToPrunedIsNoOp ==
    /\ handlers \cap unregistered = {}
    /\ (/\ event.op \in WriteOps \cup {"setWithoutHandler"}
        /\ event.UUID \in unregistered)
       => sent = <<>>

\* The host has written to an unregistered accessory, while the accessory of
\* a configured device has its handlers bound.
C18_Witness ==
    /\ event.op = "setWithoutHandler"
    /\ event.UUID \in unregistered
    /\ handlers # {}
    /\ sent = <<>>

\* C19: a status update for one device leaves the context of every other
\* accessory and the set of UUIDs in this.accessories unchanged; every other
\* step (configureAccessory, the launch steps, reads, writes) leaves the
\* context, and so the status, of every accessory already in
\* this.accessories unchanged; and the set of UUIDs in this.accessories
\* changes in configureAccessory and registerDevices steps only.
C19_OnlyUpdatesChangeSnapshots ==
    [][/\ event'.op = "onEagleUpdate" =>
            /\ DOMAIN accessories' = DOMAIN accessories
            /\ \A uuid \in DOMAIN accessories :
                 uuid # Uuid(event'.status.deviceId) =>
                    accessories'[uuid] = accessories[uuid]
       /\ event'.op \in {"configureAccessory", "registerDevices"} =>
            \A uuid \in DOMAIN accessories :
                /\ uuid \in DOMAIN accessories'
                /\ accessories'[uuid] = accessories[uuid]
       /\ event'.op \notin {"onEagleUpdate", "configureAccessory",
                            "registerDevices"} =>
            accessories' = accessories]_vars

\* A status update has been stored for one device while the accessory of
\* another device still has no status.
C19_Witness ==
    /\ event.op = "onEagleUpdate"
    /\ Uuid(event.status.deviceId) \in DOMAIN accessories
    /\ HasStatus(accessories[Uuid(event.status.deviceId)])
    /\ \E uuid \in DOMAIN accessories :
         /\ uuid # Uuid(event.status.deviceId)
         /\ ~HasStatus(accessories[uuid])

\* C20: an accessory that has a status keeps having one in every later
\* step, whatever the step is (a status update, a write, a launch step), and
\* a write on an accessory that has a status never sends the composed
\* control command.
C20_SnapshotNeverAbsentAgain ==
    [][/\ accessories' # accessories =>
            \A uuid \in DOMAIN accessories :
                HasStatus(accessories[uuid]) =>
                    /\ uuid \in DOMAIN accessories'
                    /\ HasStatus(accessories'[uuid])
       /\ (/\ event'.op \in WriteOps
           /\ HasStatus(accessories[event'.UUID]))
          => \A k \in 1..Len(sent') : sent'[k].method # "control"]_vars

\* RotationSpeed has been written on an accessory registerDevices created
\* in this run (it started without a status) and the direct cadr command
\* was sent: an update had set its status before.
C20_Witness ==
    /\ event.op = "handleRotationSpeedSet"
    /\ event.UUID \in Range(registered)
    /\ HasStatus(accessories[event.UUID])
    /\ sent = <<[method |-> "cadr", deviceId |-> IdOf(event.UUID),
                 args |-> <<event.value>>]>>

============================================================================
